---------------------------- MODULE Spec2Model ----------------------------
(***************************************************************************)
(* A model of the convolve2d crate: the grid types of src/matrix.rs, the   *)
(* convolution engine of src/convolution.rs and the SubPixels type.        *)
(*                                                                         *)
(* Four state machines share the variables of this module:                 *)
(*   Spec      the engine: one call of an entry point, one kernel tap per  *)
(*             step (the body of the nested for loops of write_convolution)*)
(*   SpecGrid  the grid type: construction, map, lookup and writes through *)
(*             get_data_mut                                                *)
(*   SpecPixels  the SubPixels type of src/subpixels.rs: one operation on  *)
(*             SubPixels values per behaviour                              *)
(*   SpecPar   the engine built with the rayon feature: the items of the   *)
(*             pass of a tap are handled by workers, a step each for the   *)
(*             read and the write of an item                               *)
(* Linear indices are 0-based as in the source; TLA+ sequences are 1-based,*)
(* so data[i + 1] is the element the source calls data[i].                 *)
(***************************************************************************)
EXTENDS Integers, Sequences, FiniteSets, TLC

VARIABLES
    image,      \* the image argument: [width, height, data]
    kernel,     \* the kernel argument: [width, height, data, holes]
    out,        \* the output grid: [width, height, data]; Absent before allocation
    entry,      \* the entry point that is called
    pc,         \* "idle", "loop", "done", "panicked" (a missing kernel value),
                \* "overflow" (a panic of the arithmetic of the pass) or, in
                \* SpecPar, "pass" (the workers of a pass are at work)
    row,        \* the loop variable row of write_convolution
    col,        \* the loop variable col of write_convolution
    out0,       \* ghost: the data of the output buffer when the tap loop started
    tap,        \* ghost: <<row, col, alignment>> of the tap executed last, or <<>>
    acc,        \* ghost: the pairs <<i, j>> the last tap combined: buf[j] += image[i] * k
    mat,        \* SpecGrid: the grid value at hand, or Absent
    req,        \* SpecGrid: the arguments of the last call of new: [width, height, len]
    outcome,    \* SpecGrid: how the last operation ended: "none", "some", "panic", ...
    lookup,     \* SpecGrid: the last get_value: [row, col, result], or <<>>
    overflowChecks, \* the build: TRUE when integer arithmetic panics on overflow
    elem,       \* the integer element type of the grids at hand: "u8" or "i8"
    px,         \* SpecPixels: the last operation on SubPixels values, or <<>>
    par         \* SpecPar: the workers of the parallel pass: [todo, busy, before,
                \* panicked], or <<>>

vars == <<image, kernel, out, entry, pc, row, col, out0, tap, acc,
          mat, req, outcome, lookup, overflowChecks, elem, px, par>>

engineVars == <<image, kernel, out, entry, pc, row, col, out0, tap, acc>>
gridVars == <<mat, req, outcome, lookup>>

-----------------------------------------------------------------------------
(* Bounds of the model *)

\* image widths and heights range over 0..MaxDim
MaxDim == 3
\* image elements range over 0..MaxPix
MaxPix == 2
\* kernel coefficients of the generated kernels range over 0..MaxCoef
MaxCoef == 2
\* the lengths of the backing sequences handed to new, and of the data of
\* ragged grids, range over 0..MaxLen
MaxLen == 4
\* the passes of a kernel of up to MaxPermuted taps are run in every order
MaxPermuted == 4
\* SubPixels<T, N> values have N in 0..MaxChannels channels
MaxChannels == 3
\* usize is modelled as an unsigned word of WordBits bits
WordBits == 6
\* the element types u8 and i8 have ElemBits bits
ElemBits == 8

RECURSIVE Pow2(_)
Pow2(n) == IF n = 0 THEN 1 ELSE 2 * Pow2(n - 1)

WordMod == Pow2(WordBits)
ElemMod == Pow2(ElemBits)

Min(a, b) == IF a <= b THEN a ELSE b
Max(a, b) == IF a >= b THEN a ELSE b

-----------------------------------------------------------------------------
(* Option<T> *)

None == <<>>
Some(v) == <<v>>
Unwrap(o) == o[1]

\* a grid that does not exist (yet)
Absent == [width |-> 0, height |-> 0, data |-> <<>>, absent |-> TRUE]

-----------------------------------------------------------------------------
(* Element arithmetic: u8 and i8, the integer types of ElemBits bits *)

\* <elem>::MIN and <elem>::MAX
MinValue == IF elem = "i8" THEN -(ElemMod \div 2) ELSE 0
MaxValue == IF elem = "i8" THEN (ElemMod \div 2) - 1 ELSE ElemMod - 1

\* x is a value of the element type
InRange(x) == MinValue <= x /\ x <= MaxValue

\* the value of the element type congruent to x modulo 2^ElemBits
Wrapping(x) == ((x - MinValue) % ElemMod) + MinValue

\* x clamped into MinValue..MaxValue
Clamp(x) == Max(MinValue, Min(MaxValue, x))

\* T: Mul<K, Output = O>: `*` of the integer types where it does not panic
\* (a build without overflow checks wraps; with overflow checks the product
\* is returned only when it is in range, see Tap)
Mul(a, k) == Wrapping(a * k)

\* O: Add<Output = O>: `+` of the integer types where it does not panic
Add(a, b) == Wrapping(a + b)

\* the saturating multiplication that wraps instead
SaturatingMulWrapped(a, k) == Wrapping(a * k)

\* <$t>::saturating_mul
SaturatingMul(a, k) == Clamp(a * k)

\* <$t>::saturating_add
SaturatingAdd(a, b) == Clamp(a + b)

\* O::default()
Default == 0

-----------------------------------------------------------------------------
(* src/matrix.rs *)

\* usize multiplication in a build that wraps on overflow
WordMul(a, b) == (a * b) % WordMod

\* Matrix::get_value, the provided method: get_data().get(row * width + col)
GetValue(m, r, c) ==
    LET i == r * m.width + c
    IN  IF i < Len(m.data) THEN Some(m.data[i + 1]) ELSE None

\* get_value of an implementor of Matrix: the implementor may override the
\* provided method; holes are the cells for which its get_value returns None
\* (StaticMatrix and DynamicMatrix do not override it: no holes).
ImplGetValue(m, r, c) ==
    IF <<r, c>> \in m.holes THEN None ELSE GetValue(m, r, c)

\* FlippedMatrix::get_value with a default in place of a missing value
FlippedGetValueOrDefault(m, r, c) ==
    LET v == ImplGetValue(m, m.height - r - 1, m.width - c - 1)
    IN  IF v = None THEN Some(0) ELSE v

\* FlippedMatrix::get_value
FlippedGetValue(m, r, c) ==
    LET new_row == m.height - r - 1
        new_col == m.width - c - 1
    IN  ImplGetValue(m, new_row, new_col)

\* FlippedMatrix(&m): the view keeps a reference to the grid it wraps and
\* delegates get_width, get_height and get_data to it
FlippedMatrix(m) ==
    [width |-> m.width, height |-> m.height, data |-> m.data, wrapped |-> m]

\* the grid at the bottom of a view of up to two levels
Innermost(v) ==
    IF "wrapped" \in DOMAIN v
    THEN IF "wrapped" \in DOMAIN v.wrapped THEN v.wrapped.wrapped ELSE v.wrapped
    ELSE v

\* a view whose get_value delegates without remapping row and column
ViewGetValueUnflipped(v, r, c) == GetValue(Innermost(v), r, c)

RECURSIVE ViewGetValue(_, _, _)
\* get_value of a grid or of a view: FlippedMatrix::get_value computes
\* new_row = height - row - 1 and new_col = width - col - 1 and asks the
\* wrapped matrix; a grid answers with the provided method
ViewGetValue(v, r, c) ==
    IF "wrapped" \in DOMAIN v
    THEN LET new_row == v.height - r - 1
             new_col == v.width - c - 1
         IN  ViewGetValue(v.wrapped, new_row, new_col)
    ELSE GetValue(v, r, c)

\* a grid value whose element type is recorded: "u8" or "SubPixels"
TypedGrid(w, h, d, e) == [width |-> w, height |-> h, data |-> d, elem |-> e]

\* new with the product compared without the wrap of the machine word
NewExactProduct(width, height, data, e) ==
    IF width * height = Len(data)
    THEN [tag |-> "some", grid |-> TypedGrid(width, height, data, e)]
    ELSE [tag |-> "none"]

\* StaticMatrix::new and DynamicMatrix::new (the same body): width * height is a
\* usize product, which panics on overflow in a build with overflow checks and
\* wraps in a build without; Some(grid) when it equals data.len(), else None.
New(width, height, data, e) ==
    IF overflowChecks /\ width * height >= WordMod
    THEN [tag |-> "panic"]
    ELSE IF WordMul(width, height) = Len(data)
         THEN [tag |-> "some", grid |-> TypedGrid(width, height, data, e)]
         ELSE [tag |-> "none"]

\* the closures handed to map and map_subpixels
Operations == {"increment", "zero"}
Apply(f, x) == IF f = "increment" THEN (x + 1) % (MaxPix + 1) ELSE 0

\* SubPixels::map: the operation applied to each channel
SubPixelsMap(sp, f) == [i \in 1..Len(sp) |-> Apply(f, sp[i])]

\* StaticMatrix::map: arr = [O::default(); N], arr[i] = operation(x) for every
\* element, then StaticMatrix::new(self.width, self.height, arr)
StaticMatrixMap(m, f) ==
    LET arr == [i \in 1..Len(m.data) |-> Apply(f, m.data[i])]
    IN  New(m.width, m.height, arr, m.elem)

\* DynamicMatrix::map: data.into_iter().map(operation).collect(), then
\* DynamicMatrix::new(self.width, self.height, arr)
DynamicMatrixMap(m, f) ==
    LET arr == [i \in 1..Len(m.data) |-> Apply(f, m.data[i])]
    IN  New(m.width, m.height, arr, m.elem)

\* StaticMatrix::map_subpixels and DynamicMatrix::map_subpixels
MapSubpixels(m, f) ==
    LET arr == [i \in 1..Len(m.data) |-> SubPixelsMap(m.data[i], f)]
    IN  New(m.width, m.height, arr, m.elem)

-----------------------------------------------------------------------------
(* src/convolution.rs: the per-tap pass *)

\* alignment_to_choke_padding with the two cases exchanged
alignment_to_choke_padding_swapped(alignment) ==
    IF alignment < 0 THEN <<0, -alignment>> ELSE <<alignment, 0>>

\* alignment_to_choke_padding: <<choke, padding>>
alignment_to_choke_padding(alignment) ==
    IF alignment < 0 THEN <<-alignment, 0>> ELSE <<0, alignment>>

\* a skip that drops nothing
SkipNothing(s, n) == s

\* Iterator::skip(n) on a sequence
Skip(s, n) == IF n >= Len(s) THEN <<>> ELSE SubSeq(s, n + 1, Len(s))

\* The number of items image_iter.skip(choke).zip(buf_iter.skip(padding))
\* yields: the zip ends with the shorter side.
ZipLen(imageLen, alignment, bufLen) ==
    LET cp == alignment_to_choke_padding(alignment)
    IN  Min(Max(imageLen - cp[1], 0), Max(bufLen - cp[2], 0))

\* a zip that runs to the end of the image whatever the length of the buffer
ZipPairsUnclipped(imageLen, alignment, bufLen) ==
    LET cp == alignment_to_choke_padding(alignment)
    IN  { <<cp[1] + t, cp[2] + t>> : t \in 0..(Max(imageLen - cp[1], 0) - 1) }

\* The index pairs <<i, j>> that image_iter.skip(choke).zip(buf_iter.skip(padding))
\* yields for an image of imageLen and a buffer of bufLen elements: item t of
\* the zip pairs image element choke + t with buffer element padding + t, and
\* the zip ends with the shorter side.
ZipPairs(imageLen, alignment, bufLen) ==
    LET cp == alignment_to_choke_padding(alignment)
        choke == cp[1]
        padding == cp[2]
        n == Min(Max(imageLen - choke, 0), Max(bufLen - padding, 0))
    IN  { <<choke + t, padding + t>> : t \in 0..(n - 1) }

\* a pass that stores the product in place of the sum
update_buffer_overwriting(img, kernel_value, alignment, buf) ==
    LET cp == alignment_to_choke_padding(alignment)
        src == Skip([i \in 1..Len(img) |-> Mul(img[i], kernel_value)], cp[1])
    IN  [j \in 1..Len(buf) |->
            IF j > cp[2] /\ j - cp[2] <= Len(src) THEN src[j - cp[2]] ELSE buf[j]]

\* update_buffer: the new contents of buf
update_buffer(img, kernel_value, alignment, buf) ==
    LET cp == alignment_to_choke_padding(alignment)
        choke == cp[1]
        padding == cp[2]
        scaled == [i \in 1..Len(img) |-> Mul(img[i], kernel_value)]
        src == Skip(scaled, choke)
    IN  [j \in 1..Len(buf) |->
            IF j > padding /\ j - padding <= Len(src)
            THEN Add(buf[j], src[j - padding])
            ELSE buf[j]]

\* update_buffer_saturating: the new contents of buf
update_buffer_saturating(img, kernel_value, alignment, buf) ==
    LET cp == alignment_to_choke_padding(alignment)
        choke == cp[1]
        padding == cp[2]
        scaled == [i \in 1..Len(img) |-> SaturatingMul(img[i], kernel_value)]
        src == Skip(scaled, choke)
    IN  [j \in 1..Len(buf) |->
            IF j > padding /\ j - padding <= Len(src)
            THEN SaturatingAdd(buf[j], src[j - padding])
            ELSE buf[j]]

\* The arithmetic of a pass of update_buffer in a build with overflow checks:
\* `*` and `+` of the integer types panic when the exact result is not a value
\* of the type. Item t of the zip (t = 0, 1, ..) multiplies image element
\* choke + t by the coefficient and adds the product to buffer element
\* padding + t; the items are handled in this order.
ItemOverflows(img, kernel_value, alignment, buf, t) ==
    LET cp == alignment_to_choke_padding(alignment)
        product == img[cp[1] + t + 1] * kernel_value
    IN  \/ ~InRange(product)
        \/ ~InRange(buf[cp[2] + t + 1] + product)

\* the first item of the pass whose arithmetic overflows, or -1
FirstOverflow(img, kernel_value, alignment, buf) ==
    LET n == ZipLen(Len(img), alignment, Len(buf))
        bad == { t \in 0..(n - 1) : ItemOverflows(img, kernel_value, alignment, buf, t) }
    IN  IF bad = {} THEN -1 ELSE CHOOSE t \in bad : \A u \in bad : t <= u

\* the buffer after the items before item t of the pass
update_buffer_until(img, kernel_value, alignment, buf, t) ==
    LET cp == alignment_to_choke_padding(alignment)
        choke == cp[1]
        padding == cp[2]
    IN  [j \in 1..Len(buf) |->
            IF j > padding /\ j - padding <= t
            THEN Add(buf[j], Mul(img[choke + j - padding], kernel_value))
            ELSE buf[j]]

\* The products the map closure may compute without accumulating them: those
\* of the image elements that skip(choke) steps over (Skip::next calls
\* Iterator::nth, which for Map runs the closure on the elements it drops),
\* and the one the zip draws from the image side before it finds the buffer
\* side exhausted. Whether they are computed depends on the iterator
\* specialisations of the standard library and on the rayon feature.
SkippedOverflows(img, kernel_value, alignment) ==
    LET choke == alignment_to_choke_padding(alignment)[1]
    IN  \E i \in 1..Min(choke, Len(img)) : ~InRange(img[i] * kernel_value)

TrailingOverflows(img, kernel_value, alignment, buf) ==
    LET choke == alignment_to_choke_padding(alignment)[1]
        i == choke + ZipLen(Len(img), alignment, Len(buf)) + 1
    IN  i <= Len(img) /\ ~InRange(img[i] * kernel_value)

-----------------------------------------------------------------------------
(* src/convolution.rs: the entry points *)

Entries == {"convolve2d", "write_convolution",
            "convolve2d_saturating", "write_convolution_saturating"}

Allocating(e) == e \in {"convolve2d", "convolve2d_saturating"}
Saturating(e) == e \in {"convolve2d_saturating", "write_convolution_saturating"}

\* the stride rounded up instead of down
kernel_stride_rounded_up(n) == (n + 1) \div 2

\* kernel_stride_x = (kernel.get_width() >> 1), kernel_stride_y likewise
kernel_stride(n) == n \div 2

\* alignment = rows_off_center * image.get_width() + cols_off_center
Alignment(img, k, r, c) ==
    LET rows_off_center == r - kernel_stride(k.height)
        cols_off_center == c - kernel_stride(k.width)
    IN  rows_off_center * img.width + cols_off_center

\* vec![O::default(); allocation]
Zeros(n) == [i \in 1..n |-> Default]

\* an allocation with width and height exchanged
AllocateTransposed(img) ==
    [width |-> img.height, height |-> img.width,
     data |-> [i \in 1..WordMul(img.width, img.height) |-> 0]]

\* The grid convolve2d and convolve2d_saturating allocate:
\* DynamicMatrix::new(width, height, vec![O::default(); width * height]).unwrap()
Allocate(img) ==
    LET allocation == WordMul(img.width, img.height)
    IN  [width |-> img.width, height |-> img.height, data |-> Zeros(allocation)]

\* The call: convolve2d and convolve2d_saturating allocate the output, then
\* every entry point enters the tap loop of write_convolution(_saturating).
Call ==
    /\ pc = "idle"
    /\ out' = IF Allocating(entry) THEN Allocate(image) ELSE out
    /\ out0' = out'.data
    /\ pc' = "loop"
    /\ row' = 0
    /\ col' = 0
    /\ UNCHANGED <<image, kernel, entry, tap, acc, gridVars, overflowChecks, elem, px, par>>

\* one pass of update_buffer / update_buffer_saturating for the tap (r, c) of
\* the flipped kernel, with the coefficient kv already unwrapped
TapPass(e, img, k, r, c, kv, buf) ==
    IF Saturating(e)
    THEN update_buffer_saturating(img.data, kv, Alignment(img, k, r, c), buf)
    ELSE update_buffer(img.data, kv, Alignment(img, k, r, c), buf)

RECURSIVE RunTaps(_, _, _, _, _, _)
\* The nested for loops of write_convolution(_saturating) from tap number t
\* (row t / width, column t % width) up to, not including, tap number stop, on
\* a kernel that has these taps: the contents of the buffer after them.
RunTaps(e, img, k, buf, t, stop) ==
    IF t >= stop
    THEN buf
    ELSE LET r == t \div k.width
             c == t % k.width
         IN  RunTaps(e, img, k,
                     TapPass(e, img, k, r, c, Unwrap(FlippedGetValue(k, r, c)), buf),
                     t + 1, stop)

\* the loop variables after the tap (row, col)
Advance ==
    IF col + 1 < kernel.width
    THEN col' = col + 1 /\ row' = row
    ELSE col' = 0 /\ row' = row + 1

\* One iteration of the inner for loop: the coefficient is read through the
\* flipped view and unwrapped (a panic when it is None), then the pass runs.
\* The pass of a wrap-around entry point in a build with overflow checks
\* panics at the first product or sum that overflows, leaving the buffer with
\* the items before it accumulated.
Tap ==
    /\ pc = "loop"
    /\ row < kernel.height
    /\ col < kernel.width
    /\ LET kv == FlippedGetValue(kernel, row, col)
           alignment == Alignment(image, kernel, row, col)
           checked == overflowChecks /\ ~Saturating(entry)
           pairs == ZipPairs(Len(image.data), alignment, Len(out.data))
       IN  IF kv = None
           THEN /\ pc' = "panicked"
                /\ UNCHANGED <<out, row, col, tap, acc>>
           ELSE LET first == FirstOverflow(image.data, Unwrap(kv), alignment, out.data)
                    choke == alignment_to_choke_padding(alignment)[1]
                IN  /\ tap' = <<row, col, alignment>>
                    /\ \/ /\ ~(checked /\ first >= 0)
                          /\ out' = [out EXCEPT !.data =
                                TapPass(entry, image, kernel, row, col, Unwrap(kv), out.data)]
                          /\ acc' = pairs
                          /\ Advance
                          /\ pc' = pc
                       \/ /\ checked /\ first >= 0
                          /\ out' = [out EXCEPT !.data =
                                update_buffer_until(image.data, Unwrap(kv), alignment,
                                                    out.data, first)]
                          /\ acc' = { p \in pairs : p[1] < choke + first }
                          /\ pc' = "overflow"
                          /\ UNCHANGED <<row, col>>
                       \/ /\ checked
                          /\ SkippedOverflows(image.data, Unwrap(kv), alignment)
                          /\ acc' = {}
                          /\ pc' = "overflow"
                          /\ UNCHANGED <<out, row, col>>
                       \/ /\ checked /\ first < 0
                          /\ TrailingOverflows(image.data, Unwrap(kv), alignment, out.data)
                          /\ out' = [out EXCEPT !.data =
                                TapPass(entry, image, kernel, row, col, Unwrap(kv), out.data)]
                          /\ acc' = pairs
                          /\ pc' = "overflow"
                          /\ UNCHANGED <<row, col>>
    /\ UNCHANGED <<image, kernel, entry, out0, gridVars, overflowChecks, elem, px, par>>

\* The loops are exhausted: the entry point returns.
Return ==
    /\ pc = "loop"
    /\ row >= kernel.height \/ kernel.width = 0
    /\ pc' = "done"
    /\ UNCHANGED <<image, kernel, out, entry, row, col, out0, tap, acc,
                   gridVars, overflowChecks, elem, px, par>>

-----------------------------------------------------------------------------
(* The inputs of the engine *)

Grid(w, h, d) == [width |-> w, height |-> h, data |-> d]
Kern(w, h, d, holes) == [width |-> w, height |-> h, data |-> d, holes |-> holes]

\* n elements, v at (1-based) position i and 0 elsewhere
Delta(n, i, v) == [j \in 1..n |-> IF j = i THEN v ELSE 0]

\* the image data of n elements: one non-zero element, or the values cycling
\* through 0..MaxPix from some start
ImageData(n) ==
    { Delta(n, i, v) : i \in 1..n, v \in 1..MaxPix }
    \cup { [j \in 1..n |-> (j + b) % (MaxPix + 1)] : b \in 0..MaxPix }

\* StaticMatrix / DynamicMatrix images: data.len() = width * height
Images ==
    { Grid(w, h, d) : <<w, h, d>> \in
        { <<w, h, d>> \in (0..MaxDim) \X (0..MaxDim) \X UNION { ImageData(n) : n \in 0..(MaxDim * MaxDim) } :
            Len(d) = w * h } }

\* kernel widths and heights
KernelSizes == {0, 1, 2, 3}

\* the kernel data of n coefficients: a single non-zero coefficient (the
\* identity kernel among them), all zero, or 1, 2, .., n
KernelData(n) ==
    { Delta(n, i, v) : i \in 1..n, v \in 1..MaxCoef }
    \cup { [j \in 1..n |-> 0], [j \in 1..n |-> j] }

\* StaticMatrix / DynamicMatrix kernels
GoodKernels ==
    { Kern(w, h, d, {}) : <<w, h, d>> \in
        { <<w, h, d>> \in KernelSizes \X KernelSizes \X UNION { KernelData(n) : n \in 0..9 } :
            Len(d) = w * h } }

\* Kernels of a broken implementor of Matrix: get_value returns None for one
\* cell (r, c) inside the declared width and height.
BrokenKernels ==
    { Kern(w, h, [j \in 1..(w * h) |-> j], {<<r, c>>}) :
        <<w, h, r, c>> \in { <<w, h, r, c>> \in (1..3) \X (1..3) \X (0..2) \X (0..2) :
                               r < h /\ c < w } }
    \* the provided get_value over data shorter than width * height
    \cup { Kern(w, h, [j \in 1..(w * h - 1) |-> j], {}) : w \in 1..3, h \in 1..3 }

\* every 3 x 3 kernel of coefficients 0 and 1
BinaryKernels == { Kern(3, 3, d, {}) : d \in [1..9 -> {0, 1}] }

\* the 3 x 3 image that is 1 at the centre cell and 0 elsewhere
CentreImage == Grid(3, 3, Delta(9, 5, 1))

\* the images the broken kernels are run on
ProbeImages == { im \in Images : im.data = [j \in 1..Len(im.data) |-> j % (MaxPix + 1)] }

\* The calls on small values: u8 grids whose sums stay far below 256, so that
\* the build (overflow checks or none) makes no difference, and write
\* buffers that are all zero.
BaseInputs ==
    /\ elem = "u8"
    /\ overflowChecks = FALSE
    /\ image \in Images
    /\ kernel \in GoodKernels \cup BrokenKernels \cup BinaryKernels
    /\ kernel \in BrokenKernels => image \in ProbeImages
    /\ kernel \in BinaryKernels \ GoodKernels => image = CentreImage
    /\ entry \in Entries
    /\ out = IF Allocating(entry) THEN Absent
             ELSE Grid(image.width, image.height, Zeros(image.width * image.height))

\* the elements and the coefficients of the calls at the edge of the range
\* of the element type e
EdgeElements(e) == IF e = "i8" THEN {100, -128, -1} ELSE {1, 128, 255}
EdgeCoefficients(e) == IF e = "i8" THEN {1, -1, 2} ELSE {1, 2, 128}

\* images of one row, and for u8 the 3 x 3 image 1..9 of tests::test_saturating
EdgeImages(e) ==
    { Grid(n, 1, d) : <<n, d>> \in
        { <<n, d>> \in (1..3) \X UNION { [1..m -> EdgeElements(e)] : m \in 1..3 } :
            Len(d) = n } }
    \cup (IF e = "u8" THEN { Grid(3, 3, [j \in 1..9 |-> j]) } ELSE {})

\* kernels of one row: 1 x 1 and 3 x 1
EdgeKernels(e) ==
    { Kern(n, 1, d, {}) : <<n, d>> \in
        { <<n, d>> \in {1, 3} \X UNION { [1..m -> EdgeCoefficients(e)] : m \in {1, 3} } :
            Len(d) = n } }

\* what a buffer of n elements handed to write_convolution(_saturating) may
\* hold: all zero, or left over from earlier use
UsedBuffers(n) == { [j \in 1..n |-> v] : v \in {0, 1, MaxValue} }

\* The calls at the edge of the range of the element type: u8 and i8 grids,
\* either build, buffers that are zero or used.
EdgeInputs ==
    /\ elem \in {"u8", "i8"}
    /\ overflowChecks \in BOOLEAN
    /\ image \in EdgeImages(elem)
    /\ kernel \in EdgeKernels(elem)
    /\ entry \in Entries
    /\ out \in IF Allocating(entry) THEN {Absent}
               ELSE { Grid(image.width, image.height, d) :
                        d \in UsedBuffers(image.width * image.height) }

\* kernels of the calls on ragged grids
RaggedKernels ==
    { Kern(1, 1, <<1>>, {}), Kern(3, 1, <<1, 2, 1>>, {}), Kern(1, 3, <<1, 2, 1>>, {}),
      Kern(3, 3, [j \in 1..9 |-> j], {}) }

\* The calls on implementors of Matrix that break the expectation
\* data.len() = width * height: the image holds any number of elements up to
\* MaxLen, the buffer any other number.
RaggedInputs ==
    /\ elem = "u8"
    /\ overflowChecks \in BOOLEAN
    /\ \E w \in 1..MaxDim, h \in 1..2, n \in 0..MaxLen, m \in 0..MaxLen :
          /\ n # w * h
          /\ m # n
          /\ image = Grid(w, h, [j \in 1..n |-> j % (MaxPix + 1)])
          /\ out \in { Grid(w, h, [j \in 1..m |-> v]) : v \in {0, 1} }
    /\ kernel \in RaggedKernels
    /\ entry \in {"write_convolution", "write_convolution_saturating"}

Init ==
    /\ BaseInputs \/ EdgeInputs \/ RaggedInputs
    /\ par = <<>>
    /\ pc = "idle"
    /\ row = 0
    /\ col = 0
    /\ out0 = <<>>
    /\ tap = <<>>
    /\ acc = {}
    /\ mat = Absent
    /\ req = <<>>
    /\ outcome = "idle"
    /\ lookup = <<>>
    /\ px = <<>>

Next == Call \/ Tap \/ Return

Spec == Init /\ [][Next]_vars

-----------------------------------------------------------------------------
(* Definitions the properties of the engine are stated with *)

\* the element of img at (r, c), taken as 0 outside the image
ZeroPadded(img, r, c) ==
    IF 0 <= r /\ r < img.height /\ 0 <= c /\ c < img.width
    THEN img.data[r * img.width + c + 1]
    ELSE 0

RECURSIVE SumOver(_, _)
\* the sum of f[t] for t in 0..(n - 1)
SumOver(f, n) == IF n = 0 THEN 0 ELSE f[n - 1] + SumOver(f, n - 1)

\* The zero-padded linear convolution at output cell (y, x):
\* sum over kernel cells (m, n) of K[m][n] * I[y + Kh/2 - m][x + Kw/2 - n]
LinearConvolutionAt(img, k, y, x) ==
    SumOver([t \in 0..(k.width * k.height - 1) |->
                LET m == t \div k.width
                    n == t % k.width
                IN  k.data[t + 1] * ZeroPadded(img, y + (k.height \div 2) - m,
                                                    x + (k.width \div 2) - n)],
            k.width * k.height)

LinearConvolution(img, k) ==
    [j \in 1..(img.width * img.height) |->
        LinearConvolutionAt(img, k, (j - 1) \div img.width, (j - 1) % img.width)]

\* a kernel that returns a value for every cell of its declared width and height
Complete(k) ==
    \A r \in 0..(k.height - 1), c \in 0..(k.width - 1) : ImplGetValue(k, r, c) # None

Odd(n) == n % 2 = 1

WrapEntry == entry \in {"convolve2d", "write_convolution"}

\* C1: for an image of W x H and a kernel of odd size Kw x Kh with Kw <= W and
\* Kh <= H, convolve2d, and write_convolution into an all-zero buffer, return
\* the zero-padded linear convolution of image and kernel.
C1_ZeroPaddedLinearConvolution ==
    (/\ pc = "done"
     /\ WrapEntry
     /\ Complete(kernel)
     /\ Odd(kernel.width) /\ Odd(kernel.height)
     /\ kernel.width <= image.width /\ kernel.height <= image.height
     /\ Len(image.data) = image.width * image.height
     /\ Len(out.data) = Len(image.data)
     /\ out0 = Zeros(Len(out0)))
    => out.data = [j \in 1..Len(out.data) |->
                     Wrapping(LinearConvolution(image, kernel)[j])]

\* C2: with a kernel no wider than the image, the element a tap of displacement
\* (dRow, dCol) accumulates into the output cell (y, x) is the image element at
\* row y - dRow and column x - dCol, a cell inside the image: nothing of a
\* neighbouring row is wrapped in.
C2_AlignmentNeverMixesRows ==
    (/\ tap # <<>>
     /\ Len(image.data) = image.width * image.height
     /\ Len(out.data) = Len(image.data)
     /\ kernel.width <= image.width)
    => \A p \in acc :
          LET W == image.width
              y == p[2] \div W
              x == p[2] % W
              dRow == tap[1] - kernel_stride(kernel.height)
              dCol == tap[2] - kernel_stride(kernel.width)
          IN  /\ p[1] = (y - dRow) * W + (x - dCol)
              /\ 0 <= x - dCol /\ x - dCol < W
              /\ 0 <= y - dRow /\ y - dRow < image.height

\* C3: for every 3 x 3 kernel K, the 3 x 3 image that is 1 at the centre and 0
\* elsewhere convolves (convolve2d, or write_convolution into an all-zero
\* buffer) to the kernel rotated by 180 degrees: out[i] = K[8 - i].
C3_CentreImpulseGivesRotatedKernel ==
    (/\ pc = "done"
     /\ WrapEntry
     /\ image = CentreImage
     /\ out0 = Zeros(9)
     /\ kernel.width = 3 /\ kernel.height = 3 /\ Complete(kernel))
    => /\ Len(out.data) = 9
       /\ \A i \in 0..8 : out.data[i + 1] = kernel.data[(8 - i) + 1]

C3_Witness ==
    /\ pc = "done"
    /\ entry = "convolve2d"
    /\ image = CentreImage
    /\ kernel.data = <<1, 2, 3, 4, 5, 6, 7, 8, 9>>
    /\ kernel.width = 3
    /\ out.data = <<9, 8, 7, 6, 5, 4, 3, 2, 1>>

\* the 3 x 3 kernel [[0,0,0],[0,1,0],[0,0,0]]
IdentityKernel == Kern(3, 3, Delta(9, 5, 1), {})

\* C4: identity law: convolve2d(G, kernel) with the 3 x 3 kernel
\* [[0,0,0],[0,1,0],[0,0,0]] returns a grid of the width, height and elements
\* of G, for every width and height of G (those below 3 included).
C4_IdentityLaw ==
    (/\ pc = "done"
     /\ entry = "convolve2d"
     /\ kernel = IdentityKernel)
    => /\ out.width = image.width
       /\ out.height = image.height
       /\ out.data = image.data

C4_Witness ==
    /\ pc = "done"
    /\ entry = "convolve2d"
    /\ kernel = IdentityKernel
    /\ image.width = 2
    /\ image.height = 1
    /\ image.data = <<1, 2>>
    /\ out.data = <<1, 2>>

\* the taps of the flipped kernel the loops visit before tap (r, c)
TapsBefore(k, r, c) ==
    { rc \in (0..(k.height - 1)) \X (0..(k.width - 1)) :
        rc[1] < r \/ (rc[1] = r /\ rc[2] < c) }

\* the flipped kernel has no value for tap (r, c)
TapMissing(k, r, c) == ImplGetValue(k, k.height - r - 1, k.width - c - 1) = None

\* C9: when the kernel returns no value for a cell inside its width and
\* height, every entry point panics at that tap: no tap after a missing one is
\* run, no call with a missing tap returns, and at the panic the buffer holds
\* the passes of the taps before the missing one and nothing else.
C9_MissingKernelValuePanics ==
    /\ pc = "done" => Complete(kernel)
    /\ pc = "loop" => \A rc \in TapsBefore(kernel, row, col) :
                          ~TapMissing(kernel, rc[1], rc[2])
    /\ pc = "panicked" =>
          /\ TapMissing(kernel, row, col)
          /\ \A rc \in TapsBefore(kernel, row, col) : ~TapMissing(kernel, rc[1], rc[2])
          /\ tap # <<>> => (tap[1] < row \/ (tap[1] = row /\ tap[2] < col))
          /\ out.data = RunTaps(entry, image, kernel, out0, 0, row * kernel.width + col)

C9_Witness ==
    /\ pc = "panicked"
    /\ entry = "write_convolution_saturating"
    /\ row = 1
    /\ col = 1
    /\ tap = <<1, 0, -1>>
    /\ \E j \in 1..Len(out.data) : out.data[j] # 0

\* C10: convolve2d and convolve2d_saturating return a new grid of the width
\* and height of the image, all default before the first tap is accumulated,
\* whose final contents are those write_convolution (write_convolution_saturating)
\* leaves in an all-zero buffer of these dimensions.
C10_AllocatingEntryPoints ==
    (Allocating(entry) /\ pc # "idle") =>
        /\ out.width = image.width
        /\ out.height = image.height
        /\ Len(out.data) = image.width * image.height
        /\ tap = <<>> => \A j \in 1..Len(out.data) : out.data[j] = Default
        /\ pc = "done" =>
              out.data = RunTaps(IF Saturating(entry) THEN "write_convolution_saturating"
                                                      ELSE "write_convolution",
                                 image, kernel,
                                 [j \in 1..(image.width * image.height) |-> 0],
                                 0, kernel.width * kernel.height)

C10_Witness ==
    /\ pc = "done"
    /\ entry = "convolve2d_saturating"
    /\ image.width = 3
    /\ image.height = 2
    /\ out.width = 3
    /\ out.height = 2
    /\ kernel.data = <<1, 2, 3, 4>>
    /\ \E j \in 1..Len(out.data) : out.data[j] # 0

-----------------------------------------------------------------------------
(* The grid type: construction, map, lookup and writes *)

\* the widths and heights handed to new: the small ones, and the two largest
\* powers of the machine word
Words == (0..MaxDim) \cup {WordMod \div 2, WordMod - 1}

\* the elements of a grid of SubPixels<u8, 2>
SubPixelValues == (0..MaxPix) \X (0..MaxPix)

ElementsOf(e) == IF e = "u8" THEN 0..MaxPix ELSE SubPixelValues

\* the backing sequences handed to new: up to MaxLen elements of u8, up to 2
\* of SubPixels
GridData(e) ==
    UNION { [1..n -> ElementsOf(e)] : n \in 0..(IF e = "u8" THEN MaxLen ELSE 2) }

InitGrid ==
    /\ par = <<>>
    /\ mat = Absent
    /\ req = <<>>
    /\ outcome = "idle"
    /\ lookup = <<>>
    /\ overflowChecks \in BOOLEAN
    /\ elem = "u8"
    /\ px = <<>>
    /\ image = Absent
    /\ kernel = Absent
    /\ out = Absent
    /\ entry = "none"
    /\ pc = "idle"
    /\ row = 0
    /\ col = 0
    /\ out0 = <<>>
    /\ tap = <<>>
    /\ acc = {}

\* a call of an operation that returns Option<grid> or panics; unwrapped marks
\* the callers that unwrap the result (map, map_subpixels)
Finish(result, unwrapped) ==
    /\ outcome' = IF result.tag = "none" /\ unwrapped THEN "panic" ELSE result.tag
    /\ mat' = IF result.tag = "some" THEN result.grid ELSE Absent

\* StaticMatrix::new(width, height, data) / DynamicMatrix::new(width, height, data)
Construct ==
    /\ outcome = "idle"
    /\ \E w \in Words, h \in Words, e \in {"u8", "SubPixels"} :
         \E d \in GridData(e) :
            /\ Finish(New(w, h, d, e), FALSE)
            /\ req' = [width |-> w, height |-> h, len |-> Len(d)]
    /\ lookup' = <<>>
    /\ UNCHANGED <<engineVars, overflowChecks, elem, px, par>>

\* mat.map(operation), on a StaticMatrix or a DynamicMatrix
Map ==
    /\ outcome # "panic"
    /\ "absent" \notin DOMAIN mat
    /\ mat.elem = "u8"
    /\ \E f \in Operations :
         \/ Finish(StaticMatrixMap(mat, f), TRUE)
         \/ Finish(DynamicMatrixMap(mat, f), TRUE)
    /\ req' = <<>>
    /\ lookup' = <<>>
    /\ UNCHANGED <<engineVars, overflowChecks, elem, px, par>>

\* mat.map_subpixels(operation)
MapSub ==
    /\ outcome # "panic"
    /\ "absent" \notin DOMAIN mat
    /\ mat.elem = "SubPixels"
    /\ \E f \in Operations : Finish(MapSubpixels(mat, f), TRUE)
    /\ req' = <<>>
    /\ lookup' = <<>>
    /\ UNCHANGED <<engineVars, overflowChecks, elem, px, par>>

\* mat.get_data_mut()[i] = v
Write ==
    /\ outcome # "panic"
    /\ "absent" \notin DOMAIN mat
    /\ \E i \in 1..Len(mat.data), v \in ElementsOf(mat.elem) :
         mat' = [mat EXCEPT !.data[i] = v]
    /\ outcome' = "written"
    /\ req' = <<>>
    /\ lookup' = <<>>
    /\ UNCHANGED <<engineVars, overflowChecks, elem, px, par>>

\* mat.get_value(row, col)
Lookup ==
    /\ outcome # "panic"
    /\ "absent" \notin DOMAIN mat
    /\ \E r \in 0..(MaxDim + 1), c \in 0..(MaxDim + 1) :
         lookup' = [row |-> r, col |-> c, result |-> GetValue(mat, r, c)]
    /\ outcome' = "looked up"
    /\ req' = <<>>
    /\ UNCHANGED <<mat, engineVars, overflowChecks, elem, px, par>>

\* FlippedMatrix(&mat).get_value(row, col) and
\* FlippedMatrix(&FlippedMatrix(&mat)).get_value(row, col), for a row and a
\* column inside the height and the width (the tap loops of the engine and
\* the tests ask for no other). The lookups read the grid and change
\* nothing: one is made on each value of the grid.
FlipLookup ==
    /\ outcome # "panic"
    /\ lookup = <<>>
    /\ "absent" \notin DOMAIN mat
    /\ \E r \in 0..(mat.height - 1), c \in 0..(mat.width - 1) :
         lookup' = [row |-> r, col |-> c,
                    result |-> GetValue(mat, r, c),
                    view |-> FlippedMatrix(mat),
                    flipped |-> ViewGetValue(FlippedMatrix(mat), r, c),
                    twice |-> ViewGetValue(FlippedMatrix(FlippedMatrix(mat)), r, c)]
    /\ outcome' = "flipped"
    /\ req' = <<>>
    /\ UNCHANGED <<mat, engineVars, overflowChecks, elem, px, par>>

NextGrid == Construct \/ Map \/ MapSub \/ Write \/ Lookup \/ FlipLookup

SpecGrid == InitGrid /\ [][NextGrid]_vars

-----------------------------------------------------------------------------
(* Properties of the grid type *)

Present(m) == "absent" \notin DOMAIN m

\* C5: new returns the absent value if and only if the length of the backing
\* sequence differs from width * height, for every (width, height, data),
\* zero-sized grids included.
C5_NewAbsentIffLengthDiffers ==
    req # <<>> => (outcome = "none" <=> req.len # req.width * req.height)

\* C5 for the triples whose product fits the machine word
NewAbsentIffLengthDiffersInRange ==
    (req # <<>> /\ req.width * req.height < WordMod)
    => (outcome = "none" <=> req.len # req.width * req.height)

\* C6: new never panics, and returns the absent value whenever the length of
\* the data is not the mathematical product width * height, also when that
\* product exceeds the largest machine word.
C6_NewSafeForEveryWord ==
    req # <<>> =>
        /\ outcome # "panic"
        /\ req.len # req.width * req.height => outcome = "none"

\* C7: get_value(row, col) returns data[row * width + col] when row < height
\* and col < width, and the absent value when row >= height or col >= width.
C7_GetValueBoundsChecked ==
    (lookup # <<>> /\ Present(mat)) =>
        /\ (lookup.row < mat.height /\ lookup.col < mat.width)
              => lookup.result = Some(mat.data[lookup.row * mat.width + lookup.col + 1])
        /\ (lookup.row >= mat.height \/ lookup.col >= mat.width)
              => lookup.result = None

\* C7 with the check the provided method makes: the linear index against the
\* length of the data
GetValueChecksLinearIndex ==
    (lookup # <<>> /\ Present(mat)) =>
        LET i == lookup.row * mat.width + lookup.col
        IN  lookup.result = IF i < Len(mat.data) THEN Some(mat.data[i + 1]) ELSE None

\* C8: every grid value satisfies data.len() == width * height in every
\* reachable state.
C8_ShapeInvariant ==
    Present(mat) => Len(mat.data) = mat.width * mat.height

\* C8 with the product the machine computes
ShapeInvariantModuloWord ==
    Present(mat) => Len(mat.data) = WordMul(mat.width, mat.height)

\* map, map_subpixels and writes through get_data_mut keep the width, the
\* height and the length of the data of the grid they act on
ShapeKept ==
    [][(Present(mat) /\ Present(mat'))
         => /\ mat'.width = mat.width
            /\ mat'.height = mat.height
            /\ Len(mat'.data) = Len(mat.data)]_vars

\* map and map_subpixels never fail on a grid that new accepted
MapNeverPanics ==
    [][outcome # "idle" => outcome' # "panic"]_vars

-----------------------------------------------------------------------------
(* Properties of the engine: buffers, sizes and the arithmetic policies *)

\* the grid has as many elements as its width and height say
Rectangular(m) == Len(m.data) = m.width * m.height

\* the contents convolve2d returns for img and k in a build that wraps: the
\* passes of all taps on the zeroed allocation
Convolve2dData(img, k) ==
    RunTaps("convolve2d", img, k, Zeros(WordMul(img.width, img.height)),
            0, k.width * k.height)

\* C11: a buffer handed to write_convolution can be reused: whatever it held
\* before the call, when the call returns it holds the convolution of the
\* image and the kernel of this call, the element values convolve2d returns
\* for them.
C11_BufferReusedAcrossCalls ==
    (/\ pc = "done"
     /\ entry = "write_convolution"
     /\ Rectangular(image)
     /\ out.width = image.width /\ out.height = image.height
     /\ Rectangular(out))
    => out.data = Convolve2dData(image, kernel)

\* C12: the engine is memory-safe without validating sizes: also for an image
\* whose data is not width * height long and a buffer of another length, every
\* pass of write_convolution and write_convolution_saturating reads only image
\* elements 0..len(image data) - 1 and writes only buffer elements
\* 0..len(buffer data) - 1, whatever the alignment of the tap, the buffer keeps
\* its length, and the only ways a call fails are the missing kernel value and
\* the arithmetic overflow: there is no out-of-bounds failure.
C12_PassesStayInBounds ==
    /\ tap # <<>> =>
          \A p \in acc : /\ 0 <= p[1] /\ p[1] < Len(image.data)
                         /\ 0 <= p[2] /\ p[2] < Len(out.data)
    /\ pc # "idle" => DOMAIN out.data = 1..Len(out0)
    /\ pc \in {"idle", "loop", "done", "panicked", "overflow"}
    /\ pc = "panicked" => TapMissing(kernel, row, col)
    /\ pc = "overflow" => overflowChecks /\ ~Saturating(entry)

C12_Witness ==
    /\ pc = "done"
    /\ entry = "write_convolution_saturating"
    /\ ~Rectangular(image)
    /\ Len(out.data) > Len(image.data)
    /\ tap # <<>>
    /\ tap[3] > Len(out.data)
    /\ out.data # out0

\* The exact (unbounded integer) sum each buffer element receives: what the
\* buffer held, plus, for every tap, the coefficient times the image element
\* the pass of the tap pairs with the buffer element (image element
\* j - alignment, when the image has one).
ExactSums(img, k, buf) ==
    [j \in 1..Len(buf) |->
        buf[j] + SumOver([t \in 0..(k.width * k.height - 1) |->
                            LET r == t \div k.width
                                c == t % k.width
                                i == j - Alignment(img, k, r, c)
                            IN  IF 1 <= i /\ i <= Len(img.data)
                                THEN img.data[i] * Unwrap(FlippedGetValue(k, r, c))
                                ELSE 0],
                         k.width * k.height)]

\* C13: wrap-around policy: when a product or a partial sum exceeds the range
\* of the w-bit integer element type, convolve2d and write_convolution still
\* complete normally, and each output element is the exact sum of its tap
\* contributions reduced modulo 2^w.
C13_WrapAroundPolicy ==
    (WrapEntry /\ Complete(kernel)) =>
        /\ pc # "overflow"
        /\ pc = "done" =>
              out.data = [j \in 1..Len(out.data) |->
                            Wrapping(ExactSums(image, kernel, out0)[j])]

\* C13 for the calls that return: the output is the exact sum modulo 2^w
ReturnedSumsAreModular ==
    (WrapEntry /\ pc = "done") =>
        out.data = [j \in 1..Len(out.data) |->
                      Wrapping(ExactSums(image, kernel, out0)[j])]

\* C13 for the builds without overflow checks: no call panics on overflow
UncheckedBuildsNeverOverflow ==
    ~overflowChecks => pc # "overflow"

\* the buffer was all zero when the tap loop started
ZeroBuffer == out0 = Zeros(Len(out0))

\* C14: saturating policy: for every fixed-width integer element type, signed
\* or unsigned, each element write_convolution_saturating leaves in an
\* all-zero buffer is the exact sum of its tap contributions clamped to
\* MIN..MAX of the type, never a wrapped value.
C14_SaturatingPolicy ==
    (/\ pc = "done"
     /\ entry = "write_convolution_saturating"
     /\ ZeroBuffer)
    => out.data = [j \in 1..Len(out.data) |->
                     Clamp(ExactSums(image, kernel, out0)[j])]

\* C14 for the unsigned element type
UnsignedSaturatingPolicy ==
    (/\ pc = "done"
     /\ entry = "write_convolution_saturating"
     /\ elem = "u8"
     /\ ZeroBuffer)
    => out.data = [j \in 1..Len(out.data) |->
                     Clamp(ExactSums(image, kernel, out0)[j])]

\* C15: for every u8 image and every 1 x 1 kernel of coefficient k,
\* write_convolution_saturating into an all-zero buffer of the dimensions of
\* the image yields out[i] = min(255, image[i] * k) for every i; the image
\* 1..9 with k = 128 gives 128 followed by eight times 255.
C15_SingleTapSaturates ==
    (/\ pc = "done"
     /\ entry = "write_convolution_saturating"
     /\ elem = "u8"
     /\ kernel.width = 1 /\ kernel.height = 1
     /\ Rectangular(image)
     /\ out.width = image.width /\ out.height = image.height /\ Rectangular(out)
     /\ ZeroBuffer)
    => /\ Len(out.data) = Len(image.data)
       /\ \A i \in 1..Len(image.data) :
             out.data[i] = Min(ElemMod - 1, image.data[i] * kernel.data[1])

C15_Witness ==
    /\ pc = "done"
    /\ entry = "write_convolution_saturating"
    /\ elem = "u8"
    /\ image = Grid(3, 3, <<1, 2, 3, 4, 5, 6, 7, 8, 9>>)
    /\ kernel.data = <<128>>
    /\ out0 = Zeros(9)
    /\ out.data = <<128, 255, 255, 255, 255, 255, 255, 255, 255>>

\* the orders of the passes of n taps: the sequences that hold every tap
\* number 0..(n - 1) once
Orders(n) ==
    { p \in [1..n -> 0..(n - 1)] : \A a, b \in 1..n : p[a] = p[b] => a = b }

RECURSIVE RunOrder(_, _, _, _, _, _)
\* The passes of write_convolution(_saturating) run in the order of the tap
\* numbers order[t], order[t + 1], ..: the contents of the buffer after them,
\* where no pass panics.
RunOrder(e, img, k, buf, order, t) ==
    IF t > Len(order)
    THEN buf
    ELSE LET r == order[t] \div k.width
             c == order[t] % k.width
         IN  RunOrder(e, img, k,
                      TapPass(e, img, k, r, c, Unwrap(FlippedGetValue(k, r, c)), buf),
                      order, t + 1)

RECURSIVE OrderOverflows(_, _, _, _, _)
\* some pass of update_buffer, run in this order from buf, has an item whose
\* product or sum is out of the range of the element type
OrderOverflows(img, k, buf, order, t) ==
    IF t > Len(order)
    THEN FALSE
    ELSE LET r == order[t] \div k.width
             c == order[t] % k.width
             kv == Unwrap(FlippedGetValue(k, r, c))
             a == Alignment(img, k, r, c)
         IN  \/ FirstOverflow(img.data, kv, a, buf) >= 0
             \/ OrderOverflows(img, k, update_buffer(img.data, kv, a, buf), order, t + 1)

\* the call returned from a kernel whose passes are run in every order
Permuted(e) ==
    /\ pc = "done"
    /\ entry = e
    /\ kernel.width * kernel.height <= MaxPermuted

\* C16: the output of the wrap-around engine does not depend on the order of
\* the taps: for every image, kernel and initial buffer over a fixed-width
\* integer type, the passes of write_convolution run in any permutation
\* leave the element values the call leaves.
C16_WrapOrderIndependent ==
    Permuted("write_convolution") =>
        \A order \in Orders(kernel.width * kernel.height) :
            /\ ~(overflowChecks /\ OrderOverflows(image, kernel, out0, order, 1))
            /\ RunOrder(entry, image, kernel, out0, order, 1) = out.data

\* C16 for the builds without overflow checks
UncheckedWrapOrderIndependent ==
    (Permuted("write_convolution") /\ ~overflowChecks) =>
        \A order \in Orders(kernel.width * kernel.height) :
            RunOrder(entry, image, kernel, out0, order, 1) = out.data

\* C16 for the unsigned element type, in either build
UnsignedWrapOrderIndependent ==
    (Permuted("write_convolution") /\ elem = "u8") =>
        \A order \in Orders(kernel.width * kernel.height) :
            /\ ~(overflowChecks /\ OrderOverflows(image, kernel, out0, order, 1))
            /\ RunOrder(entry, image, kernel, out0, order, 1) = out.data

\* C17: the output of the saturating engine does not depend on the order of
\* the taps: for every image and kernel over a fixed-width integer type,
\* signed or unsigned, the saturating passes of write_convolution_saturating
\* run in any permutation leave the element values the call leaves.
C17_SaturatingOrderIndependent ==
    Permuted("write_convolution_saturating") =>
        \A order \in Orders(kernel.width * kernel.height) :
            RunOrder(entry, image, kernel, out0, order, 1) = out.data

\* C17 into an all-zero buffer
SaturatingOrderIndependentFromZero ==
    (Permuted("write_convolution_saturating") /\ ZeroBuffer) =>
        \A order \in Orders(kernel.width * kernel.height) :
            RunOrder(entry, image, kernel, out0, order, 1) = out.data

\* C17 for the unsigned element type
UnsignedSaturatingOrderIndependent ==
    (Permuted("write_convolution_saturating") /\ elem = "u8") =>
        \A order \in Orders(kernel.width * kernel.height) :
            RunOrder(entry, image, kernel, out0, order, 1) = out.data

-----------------------------------------------------------------------------
(* src/subpixels.rs: SubPixels<T, N>, a sequence of N channels *)

\* an addition that adds channel 0 of the right-hand side to every channel
SubPixelsAddCoupled(a, b) ==
    [tag |-> "ok", value |-> [i \in 1..Len(a) |-> Add(a[i], b[1])]]

RECURSIVE AddChannels(_, _, _)
\* for (i, x) in rhs.0.into_iter().enumerate() { self.0[i] = self.0[i] + x }
\* from channel i on; `+` of the channel type panics on overflow in a build
\* with overflow checks
AddChannels(self, rhs, i) ==
    IF i > Len(rhs)
    THEN [tag |-> "ok", value |-> self]
    ELSE IF overflowChecks /\ ~InRange(self[i] + rhs[i])
         THEN [tag |-> "panic"]
         ELSE AddChannels([self EXCEPT ![i] = Add(self[i], rhs[i])], rhs, i + 1)

\* impl Add for SubPixels<T, N>: a + b
SubPixelsAdd(a, b) == AddChannels(a, b, 1)

RECURSIVE MulChannels(_, _, _, _)
\* self.0.into_iter().map(|a| a * rhs).enumerate().for_each(|(i, v)| arr[i] = v)
\* from channel i on
MulChannels(arr, self, rhs, i) ==
    IF i > Len(self)
    THEN [tag |-> "ok", value |-> arr]
    ELSE IF overflowChecks /\ ~InRange(self[i] * rhs)
         THEN [tag |-> "panic"]
         ELSE MulChannels([arr EXCEPT ![i] = Mul(self[i], rhs)], self, rhs, i + 1)

\* impl Mul<C> for SubPixels<T, N>: a * s, starting from arr = [O::default(); N]
SubPixelsMul(a, s) == MulChannels(Zeros(Len(a)), a, s, 1)

\* U::try_from(n) for U = u8 and a wider integer type T. The error stands for
\* what U::Error records about the failure; it is modelled as the rejected
\* value, so that the errors of different channels can be told apart.
TryFrom(n) ==
    IF 0 <= n /\ n <= ElemMod - 1
    THEN [tag |-> "ok", value |-> n]
    ELSE [tag |-> "err", error |-> n]

RECURSIVE ConvertAll(_, _, _, _)
\* every channel converted, the error of the last failing channel returned
ConvertAll(arr, self, i, last) ==
    IF i > Len(self)
    THEN IF last = None
         THEN [tag |-> "ok", value |-> arr, tried |-> Len(self)]
         ELSE [tag |-> "err", error |-> Unwrap(last), tried |-> Len(self)]
    ELSE LET c == TryFrom(self[i])
         IN  IF c.tag = "err"
             THEN ConvertAll(arr, self, i + 1, Some(c.error))
             ELSE ConvertAll([arr EXCEPT ![i] = c.value], self, i + 1, last)

\* a conversion that goes on after a failing channel
try_convert_all(self) == ConvertAll(Zeros(Len(self)), self, 1, None)

RECURSIVE TryConvertChannels(_, _, _)
\* for (a, n) in arr.iter_mut().zip(self.0) { *a = U::try_from(n)?; } from
\* channel i on, then Ok(SubPixels(arr)); tried counts the calls of try_from
TryConvertChannels(arr, self, i) ==
    IF i > Len(self)
    THEN [tag |-> "ok", value |-> arr, tried |-> i - 1]
    ELSE LET c == TryFrom(self[i])
         IN  IF c.tag = "err"
             THEN [tag |-> "err", error |-> c.error, tried |-> i]
             ELSE TryConvertChannels([arr EXCEPT ![i] = c.value], self, i + 1)

\* SubPixels::try_convert, starting from arr = [U::default(); N]
try_convert(self) == TryConvertChannels(Zeros(Len(self)), self, 1)

\* the integer types of saturating_impl!
IntegerTypes ==
    {"u8", "u16", "u32", "u64", "u128", "usize",
     "i8", "i16", "i32", "i64", "i128", "isize"}

\* the element types a grid is instantiated with
ElementTypes == IntegerTypes \cup {"SubPixels"}

\* The implementations of the arithmetic traits: Add and Mul are implemented
\* by the integer types and by SubPixels, SaturatingAdd and SaturatingMul by
\* the types saturating_impl! is invoked for.
Implements(t, trait) ==
    IF trait \in {"SaturatingAdd", "SaturatingMul"}
    THEN t \in IntegerTypes
    ELSE trait \in {"Add", "Mul"}

\* the where clauses of the entry points on the element type
TraitBounds(e) ==
    IF Saturating(e) THEN {"SaturatingMul", "SaturatingAdd"} ELSE {"Mul", "Add"}

\* an entry point instantiated with grids of element type t
Instantiate(e, t) ==
    IF \A trait \in TraitBounds(e) : Implements(t, trait)
    THEN "compiles"
    ELSE "unsatisfied trait bound"

-----------------------------------------------------------------------------
(* The operations on SubPixels values *)

\* the channels of the operands of + and *
ChannelValues == (0..MaxPix) \cup {ElemMod - 1}

\* the operands of + and *: every value of n channels, and those of the
\* example of the documentation
PixelValues(n) ==
    [1..n -> ChannelValues]
    \cup (IF n = 3 THEN {<<1, 2, 3>>, <<4, 5, 6>>} ELSE {})

\* the channels of the values handed to try_convert::<u8>
WideValues == {-1, 0, 1, ElemMod - 1, ElemMod, ElemMod + 44}

InitPixels ==
    /\ par = <<>>
    /\ px = <<>>
    /\ elem = "u8"
    /\ overflowChecks \in BOOLEAN
    /\ mat = Absent
    /\ req = <<>>
    /\ outcome = "idle"
    /\ lookup = <<>>
    /\ image = Absent
    /\ kernel = Absent
    /\ out = Absent
    /\ entry = "none"
    /\ pc = "idle"
    /\ row = 0
    /\ col = 0
    /\ out0 = <<>>
    /\ tap = <<>>
    /\ acc = {}

\* a + b
PixelAdd ==
    /\ px = <<>>
    /\ \E n \in 0..MaxChannels :
         \E a \in PixelValues(n), b \in PixelValues(n) :
            px' = [op |-> "add", a |-> a, b |-> b, result |-> SubPixelsAdd(a, b)]
    /\ UNCHANGED <<engineVars, gridVars, overflowChecks, elem, par>>

\* a * s
PixelMul ==
    /\ px = <<>>
    /\ \E n \in 0..MaxChannels :
         \E a \in PixelValues(n), s \in 0..MaxCoef :
            px' = [op |-> "mul", a |-> a, s |-> s, result |-> SubPixelsMul(a, s)]
    /\ UNCHANGED <<engineVars, gridVars, overflowChecks, elem, par>>

\* a.try_convert::<u8>()
PixelTryConvert ==
    /\ px = <<>>
    /\ \E n \in 0..MaxChannels :
         \E a \in [1..n -> WideValues] :
            px' = [op |-> "try_convert", a |-> a, result |-> try_convert(a)]
    /\ UNCHANGED <<engineVars, gridVars, overflowChecks, elem, par>>

\* an entry point of the engine instantiated with an element type
PixelInstantiate ==
    /\ px = <<>>
    /\ \E e \in Entries, t \in ElementTypes :
         px' = [op |-> "instantiate", entry |-> e, type |-> t,
                result |-> Instantiate(e, t)]
    /\ UNCHANGED <<engineVars, gridVars, overflowChecks, elem, par>>

NextPixels == PixelAdd \/ PixelMul \/ PixelTryConvert \/ PixelInstantiate

SpecPixels == InitPixels /\ [][NextPixels]_vars

-----------------------------------------------------------------------------
(* Properties of SubPixels *)

\* the last operation on SubPixels values was op
Did(op) == px # <<>> /\ px.op = op

\* C18: SubPixels arithmetic is channel-wise, with no coupling of channels:
\* (a + b).0[i] = a.0[i] + b.0[i] and (a * s).0[i] = a.0[i] * s for every
\* channel i of every number of channels (the operation panics exactly when
\* the operation of some channel does), SubPixels([1,2,3]) * 2 is
\* SubPixels([2,4,6]) and SubPixels([1,2,3]) + SubPixels([4,5,6]) is
\* SubPixels([5,7,9]).
C18_ChannelWiseArithmetic ==
    /\ Did("add") =>
          /\ px.result.tag = "panic" <=>
                (overflowChecks /\ \E i \in 1..Len(px.a) : ~InRange(px.a[i] + px.b[i]))
          /\ px.result.tag # "panic" =>
                /\ Len(px.result.value) = Len(px.a)
                /\ \A i \in 1..Len(px.a) : px.result.value[i] = Add(px.a[i], px.b[i])
          /\ (px.a = <<1, 2, 3>> /\ px.b = <<4, 5, 6>>) => px.result.value = <<5, 7, 9>>
    /\ Did("mul") =>
          /\ px.result.tag = "panic" <=>
                (overflowChecks /\ \E i \in 1..Len(px.a) : ~InRange(px.a[i] * px.s))
          /\ px.result.tag # "panic" =>
                /\ Len(px.result.value) = Len(px.a)
                /\ \A i \in 1..Len(px.a) : px.result.value[i] = Mul(px.a[i], px.s)
          /\ (px.a = <<1, 2, 3>> /\ px.s = 2) => px.result.value = <<2, 4, 6>>

C18_Witness ==
    /\ Did("add")
    /\ px.a = <<1, 2, 3>>
    /\ px.b = <<4, 5, 6>>
    /\ px.result = [tag |-> "ok", value |-> <<5, 7, 9>>]

\* C19: SubPixels supports the saturating variants: it provides saturating
\* addition and saturating scalar multiplication, so convolve2d_saturating
\* and write_convolution_saturating can be run on grids of SubPixels as on
\* grids of scalars.
C19_SubPixelsSaturating ==
    (Did("instantiate") /\ Saturating(px.entry)) =>
        /\ px.type = "SubPixels" => px.result = "compiles"
        /\ Implements("SubPixels", "SaturatingAdd")
        /\ Implements("SubPixels", "SaturatingMul")

\* SubPixels grids can be run through the wrap-around entry points, integer
\* grids through all entry points
OtherInstancesCompile ==
    (Did("instantiate") /\ ~(Saturating(px.entry) /\ px.type = "SubPixels")) =>
        px.result = "compiles"

\* C20: try_convert converts channel by channel in index order and stops at
\* the first channel whose value the target type cannot represent: it returns
\* the error of the failing channel of lowest index without converting a
\* later channel, and Ok with every channel converted only when no channel
\* fails.
C20_TryConvertShortCircuits ==
    Did("try_convert") =>
        LET failing == { i \in 1..Len(px.a) : TryFrom(px.a[i]).tag = "err" }
        IN  IF failing = {}
            THEN /\ px.result.tag = "ok"
                 /\ px.result.value = px.a
                 /\ px.result.tried = Len(px.a)
            ELSE LET first == CHOOSE i \in failing : \A j \in failing : i <= j
                 IN  /\ px.result.tag = "err"
                     /\ px.result.error = TryFrom(px.a[first]).error
                     /\ px.result.tried = first

C20_Witness ==
    /\ Did("try_convert")
    /\ px.a = <<1, ElemMod, -1>>
    /\ px.result = [tag |-> "err", error |-> ElemMod, tried |-> 2]

-----------------------------------------------------------------------------
(* Properties of the kernel-orientation view *)

\* C21: FlippedMatrix reports the width, the height and the data of the grid
\* it wraps unchanged; for every row < height and col < width its get_value
\* returns the element of the wrapped grid at (height - 1 - row,
\* width - 1 - col), so (0, 0) maps to (H - 1, W - 1); and a flipped view
\* wrapped in a second flipped view returns the value of the original grid at
\* (row, col).
C21_FlippedMatrixView ==
    (outcome = "flipped" /\ Rectangular(mat)) =>
        LET H == mat.height
            W == mat.width
        IN  /\ lookup.view.width = W
            /\ lookup.view.height = H
            /\ lookup.view.data = mat.data
            /\ lookup.flipped =
                  Some(mat.data[(H - 1 - lookup.row) * W + (W - 1 - lookup.col) + 1])
            /\ (lookup.row = 0 /\ lookup.col = 0) =>
                  lookup.flipped = Some(mat.data[(H - 1) * W + (W - 1) + 1])
            /\ lookup.twice = Some(mat.data[lookup.row * W + lookup.col + 1])

C21_Witness ==
    /\ outcome = "flipped"
    /\ mat.width = 2
    /\ mat.height = 2
    /\ mat.data = <<0, 1, 2, 1>>
    /\ lookup.row = 0
    /\ lookup.col = 1
    /\ lookup.flipped = Some(2)
    /\ lookup.twice = Some(1)

\* C21 as a delegation, for every grid new returns (those of a wrapped
\* product width * height included): the view answers what the wrapped grid
\* answers at the remapped cell
FlippedViewDelegates ==
    outcome = "flipped" =>
        /\ lookup.flipped = GetValue(mat, mat.height - 1 - lookup.row,
                                          mat.width - 1 - lookup.col)
        /\ lookup.twice = lookup.result

-----------------------------------------------------------------------------
(* SpecPar: the engine built with the rayon feature (src/lib.rs, enabled by *)
(* default). image.par_iter() and buf.par_iter_mut() replace the sequential *)
(* iterators of update_buffer and update_buffer_saturating; map, skip, zip  *)
(* and for_each are those of rayon's indexed parallel iterators. The zip    *)
(* hands every item (one product, one exclusive reference to a buffer       *)
(* element) to exactly one worker, in any order, and for_each returns when  *)
(* every item was handled. The closure of for_each is two steps of a        *)
(* worker here, the read of *a with the product and the write of *a, so     *)
(* that an interference between workers would show.                         *)

MaxWorkers == 2
Workers == 1..MaxWorkers

\* no worker holds an item without waiting for any of them
JoinedEarly(busy) == TRUE

\* for_each returns: no worker holds an item
Joined(busy) == \A w \in Workers : busy[w] = None

\* every item addresses the first element behind the padding
ItemBufferShared(padding, t) == padding + 1

\* the (1-based) buffer element of item t: buf_iter.skip(padding), zipped
ItemBuffer(padding, t) == padding + t + 1

\* the (1-based) image element of item t: image_iter.map(..).skip(choke), zipped
ItemImage(choke, t) == choke + t + 1

\* the value the closures of map and for_each compute for an item:
\* a.clone() + x.clone() * kernel_value.clone(), or its saturating form
ItemValue(e, x, kernel_value, a) ==
    IF Saturating(e)
    THEN SaturatingAdd(a, SaturatingMul(x, kernel_value))
    ELSE Add(a, Mul(x, kernel_value))

\* the coefficient of the pass in progress
PassCoefficient == Unwrap(FlippedGetValue(kernel, row, col))

\* The pass of the tap (row, col) begins: the coefficient is read and
\* unwrapped, and the items of the zip are handed to the pool.
StartPass ==
    /\ pc = "loop"
    /\ row < kernel.height
    /\ col < kernel.width
    /\ LET kv == FlippedGetValue(kernel, row, col)
           alignment == Alignment(image, kernel, row, col)
       IN  IF kv = None
           THEN /\ pc' = "panicked"
                /\ UNCHANGED <<tap, acc, par>>
           ELSE /\ pc' = "pass"
                /\ tap' = <<row, col, alignment>>
                /\ acc' = {}
                /\ par' = [par EXCEPT
                      !.todo = 0..(ZipLen(Len(image.data), alignment, Len(out.data)) - 1),
                      !.before = out.data,
                      !.panicked = FALSE]
    /\ UNCHANGED <<image, kernel, out, entry, row, col, out0, gridVars,
                   overflowChecks, elem, px>>

\* A free worker takes an item: it computes the product and reads the buffer
\* element. In a build with overflow checks the `*` or the `+` of a wrap-around
\* pass panics on overflow: the job of the worker ends and the panic is kept
\* for the end of the pass.
Load(w) ==
    /\ pc = "pass"
    /\ par.busy[w] = None
    /\ \E t \in par.todo :
         LET cp == alignment_to_choke_padding(tap[3])
             i == ItemImage(cp[1], t)
             j == ItemBuffer(cp[2], t)
             checked == overflowChecks /\ ~Saturating(entry)
         IN  IF checked /\ ItemOverflows(image.data, PassCoefficient, tap[3], out.data, t)
             THEN par' = [par EXCEPT !.todo = @ \ {t}, !.panicked = TRUE]
             ELSE par' = [par EXCEPT
                     !.todo = @ \ {t},
                     !.busy[w] = Some([tap |-> <<row, col>>, item |-> t, j |-> j,
                                       value |-> ItemValue(entry, image.data[i],
                                                           PassCoefficient, out.data[j])])]
    /\ UNCHANGED <<engineVars, gridVars, overflowChecks, elem, px>>

\* The worker writes the sum to the buffer element of its item.
Store(w) ==
    /\ pc = "pass"
    /\ par.busy[w] # None
    /\ LET item == Unwrap(par.busy[w])
           choke == alignment_to_choke_padding(tap[3])[1]
       IN  /\ out' = [out EXCEPT !.data[item.j] = item.value]
           /\ acc' = acc \cup {<<choke + item.item, item.j - 1>>}
    /\ par' = [par EXCEPT !.busy[w] = None]
    /\ UNCHANGED <<image, kernel, entry, pc, row, col, out0, tap, gridVars,
                   overflowChecks, elem, px>>

\* rayon's skip runs the part it skips for its side effects: the products of
\* the skipped image elements may be computed, and panic on overflow in a
\* build with overflow checks.
SkippedPart ==
    /\ pc = "pass"
    /\ overflowChecks /\ ~Saturating(entry)
    /\ ~par.panicked
    /\ SkippedOverflows(image.data, PassCoefficient, tap[3])
    /\ par' = [par EXCEPT !.panicked = TRUE]
    /\ UNCHANGED <<engineVars, gridVars, overflowChecks, elem, px>>

\* for_each returns when no item is left and no worker holds one; a panic of
\* a job is resumed here, the items not yet taken are dropped.
Join ==
    /\ pc = "pass"
    /\ Joined(par.busy)
    /\ par.todo = {} \/ par.panicked
    /\ par' = [par EXCEPT !.todo = {}]
    /\ IF par.panicked
       THEN pc' = "overflow" /\ UNCHANGED <<row, col>>
       ELSE pc' = "loop" /\ Advance
    /\ UNCHANGED <<image, kernel, out, entry, out0, tap, acc, gridVars,
                   overflowChecks, elem, px>>

\* The inputs: images of one row, kernels of one row, the write entry points
\* on buffers in use, both element types and both kinds of build.
ParElements(e) == IF e = "i8" THEN {100, -128} ELSE {1, 255}
ParCoefficients(e) == IF e = "i8" THEN {1, -1} ELSE {1, 2}

ParImages(e) ==
    UNION { { Grid(n, 1, d) : d \in [1..n -> ParElements(e)] } : n \in 1..MaxDim }

\* the last kernel is one of a broken implementor of Matrix (a hole)
ParKernels(e) ==
    UNION { { Kern(w, 1, d, {}) : d \in [1..w -> ParCoefficients(e)] } : w \in {1, 3} }
    \cup { Kern(3, 1, [j \in 1..3 |-> 1], {<<0, 1>>}) }

InitPar ==
    /\ elem \in {"u8", "i8"}
    /\ overflowChecks \in BOOLEAN
    /\ image \in ParImages(elem)
    /\ kernel \in ParKernels(elem)
    /\ entry \in {"write_convolution", "write_convolution_saturating"}
    /\ out \in { Grid(image.width, 1, [i \in 1..image.width |-> v]) : v \in {0, MaxValue} }
    /\ pc = "idle"
    /\ row = 0
    /\ col = 0
    /\ out0 = <<>>
    /\ tap = <<>>
    /\ acc = {}
    /\ mat = Absent
    /\ req = <<>>
    /\ outcome = "idle"
    /\ lookup = <<>>
    /\ px = <<>>
    /\ par = [todo |-> {}, busy |-> [w \in Workers |-> None], before |-> <<>>,
              panicked |-> FALSE]

NextPar ==
    \/ Call
    \/ StartPass
    \/ \E w \in Workers : Load(w)
    \/ \E w \in Workers : Store(w)
    \/ SkippedPart
    \/ Join
    \/ Return

SpecPar == InitPar /\ [][NextPar]_vars

-----------------------------------------------------------------------------
(* Properties of the parallel build, checked on SpecPar *)

\* the buffer elements the workers hold an item of
Held(w) == Unwrap(par.busy[w]).j

\* C22: in the parallel build the parallelism stays inside the pass of one
\* tap: every worker that holds an item holds an item of the tap whose pass is
\* in progress, no two workers hold the same buffer element and none holds an
\* element the pass has already written, and outside a pass (before the pass
\* of the next tap starts, at the return, after a panic) no worker holds an
\* item.
C22_WorkersOfOneTap ==
    /\ \A w \in Workers :
         par.busy[w] # None =>
            /\ pc = "pass"
            /\ Unwrap(par.busy[w]).tap = <<row, col>>
            /\ \A p \in acc : p[2] + 1 # Held(w)
    /\ \A w1, w2 \in Workers :
         (w1 # w2 /\ par.busy[w1] # None /\ par.busy[w2] # None) =>
            Held(w1) # Held(w2)
    /\ pc # "pass" => Joined(par.busy)

\* two workers hold items of the pass of the second tap of a kernel, a third
\* item of the pass is already written
C22_Witness ==
    /\ pc = "pass"
    /\ <<row, col>> = <<0, 1>>
    /\ \A w \in {1, 2} : par.busy[w] # None
    /\ acc # {}

\* the pass of a later tap started after the workers of the one before it
\* finished: at the start of a pass no worker holds an item
PassStartsAfterJoin ==
    [][(pc = "loop" /\ pc' = "pass") => (Joined(par.busy) /\ Joined(par'.busy))]_vars

\* the coefficient of the last pass that started
LastCoefficient == Unwrap(FlippedGetValue(kernel, tap[1], tap[2]))

\* C25: the parallel pass leaves what the sequential pass leaves, whatever
\* the interleaving of the workers: when the pass of a tap has returned, the
\* buffer is the buffer the sequential update_buffer (update_buffer_saturating
\* for the saturating entry point) makes of the buffer the pass started with,
\* and every item of the zip was handled once; the pass of a build with
\* overflow checks returns only when the sequential pass overflows on no item
\* and panics only where the sequential pass can panic; and the returned
\* buffer of the call is the buffer the sequential loop of passes returns.
C25_ParallelEqualsSequential ==
    LET checked == overflowChecks /\ ~Saturating(entry)
    IN  /\ (pc = "loop" /\ tap # <<>>) =>
              /\ out.data = TapPass(entry, image, kernel, tap[1], tap[2],
                                    LastCoefficient, par.before)
              /\ acc = ZipPairs(Len(image.data), tap[3], Len(out.data))
              /\ checked =>
                    FirstOverflow(image.data, LastCoefficient, tap[3], par.before) < 0
        /\ pc = "overflow" =>
              /\ checked
              /\ \/ FirstOverflow(image.data, LastCoefficient, tap[3], par.before) >= 0
                 \/ SkippedOverflows(image.data, LastCoefficient, tap[3])
        /\ pc = "done" =>
              out.data = RunTaps(entry, image, kernel, out0, 0,
                                 kernel.width * kernel.height)

\* the saturating pass of a tap over three items, handled by the workers in
\* some order, has returned and left an element at the upper bound of i8
C25_Witness ==
    /\ pc = "loop"
    /\ tap # <<>>
    /\ Saturating(entry)
    /\ elem = "i8"
    /\ Cardinality(acc) = 3
    /\ out.data # par.before
    /\ \E j \in 1..Len(out.data) : out.data[j] = MaxValue /\ par.before[j] # MaxValue

\* the same for the wrap-around pass, with a sum that wrapped
WrapPassJoined ==
    /\ pc = "loop"
    /\ tap # <<>>
    /\ ~Saturating(entry)
    /\ Cardinality(acc) = 3
    /\ \E p \in acc :
         ~InRange(par.before[p[2] + 1] + image.data[p[1] + 1] * LastCoefficient)

\* while the pass runs every element is the one the pass started with or the
\* one the sequential pass leaves
PassElementsOldOrNew ==
    pc = "pass" =>
        \A j \in 1..Len(out.data) :
            out.data[j] \in {par.before[j],
                             TapPass(entry, image, kernel, row, col,
                                     PassCoefficient, par.before)[j]}

-----------------------------------------------------------------------------
(* The effect of one pass, checked on the passes of Spec *)

\* a step of Spec that is one completed pass of update_buffer
WrapPassStep ==
    /\ pc = "loop"
    /\ pc' = "loop"
    /\ tap' # tap
    /\ ~Saturating(entry)

\* C23: one pass update_buffer(image, k, alignment, buf), for every alignment
\* and any lengths of image and buf, leaves the length of buf alone and, for
\* every (0-based) index i of buf, makes buf[i] the old buf[i] plus
\* image[i - alignment] * k when 0 <= i - alignment < len(image), and leaves
\* buf[i] unchanged otherwise; a negative alignment pairs no image element
\* before |alignment|, a non-negative one leaves the first alignment elements
\* of buf untouched, and an alignment that reaches past the image (negative)
\* or past the buffer (non-negative) changes nothing.
C23_PassFrameEffect ==
    [][WrapPassStep =>
        LET alignment == Alignment(image, kernel, row, col)
            k == Unwrap(FlippedGetValue(kernel, row, col))
            old == out.data
            new == out'.data
        IN  /\ Len(new) = Len(old)
            /\ \A i \in 0..(Len(old) - 1) :
                 new[i + 1] = IF 0 <= i - alignment /\ i - alignment < Len(image.data)
                              THEN Add(old[i + 1], Mul(image.data[i - alignment + 1], k))
                              ELSE old[i + 1]
            /\ alignment < 0 => \A p \in acc' : p[1] >= -alignment
            /\ alignment >= 0 =>
                 \A i \in 0..(Min(alignment, Len(old)) - 1) : new[i + 1] = old[i + 1]
            /\ (alignment < 0 /\ -alignment >= Len(image.data)) => new = old
            /\ (alignment >= 0 /\ alignment >= Len(old)) => new = old
    ]_vars

\* a pass of alignment -1 has added the second of three image elements to the
\* first of two zero buffer elements, and the third to the second
C23_Witness ==
    /\ pc = "loop"
    /\ ~Saturating(entry)
    /\ tap # <<>>
    /\ tap[3] = -1
    /\ Len(image.data) = 3
    /\ Len(out.data) = 2
    /\ acc = {<<1, 0>>, <<2, 1>>}
    /\ out.data # out0

\* a pass whose alignment reaches past the image or the buffer happened
PassOutOfReach ==
    /\ pc = "loop"
    /\ tap # <<>>
    /\ acc = {}
    /\ Len(image.data) > 0
    /\ Len(out.data) > 0

-----------------------------------------------------------------------------
(* Accumulation into a buffer in use, checked on the calls of Spec *)

\* what the call in progress produces in an all-zero buffer of the length of
\* its target, with the arithmetic of a wrap-around type
SingleCallResult ==
    RunTaps(entry, image, kernel, Zeros(Len(out0)), 0, kernel.width * kernel.height)

=============================================================================
